---- MODULE Spec2Model ----
(***************************************************************************)
(* FM synthesizer (src/src/main.rs): the FM oscillator's phase             *)
(* accumulators, the ADSR envelope's state machine, the FMSynth voice that *)
(* composes them, and main's two threads (the audio callback and the       *)
(* control thread) sharing the voice under one mutex.                      *)
(*                                                                         *)
(* Numbers.  The source computes in f32.                                   *)
(*  - Envelope times, durations and levels are exact rationals [n, d].     *)
(*    On a power-of-two sample rate every elapsed time k/sample_rate is    *)
(*    exactly representable in f32 and so is every sum the code forms, so  *)
(*    the comparisons time >= duration, and with them the stage reached    *)
(*    after each call, are those of the f32 code; a level differs from     *)
(*    the f32 value by rounding only.  The envelope alone is therefore     *)
(*    explored on power-of-two sample rates.  On another rate (48000 Hz)   *)
(*    the f32 clock drifts from k/sample_rate by rounding, which matters   *)
(*    only in a call whose elapsed time is within that drift of a stage's  *)
(*    duration; main's threads are explored over a few blocks at 48000 Hz, *)
(*    where no elapsed time comes near one.                                *)
(*  - Oscillator phases are fixed point, PhaseUnit steps per cycle; sines  *)
(*    are fixed point, SinUnit steps per unit, read from a table of the    *)
(*    quarter cycle with linear interpolation; frequencies are in          *)
(*    1/FreqUnit Hz and amplitudes in 1/AmpUnit.  Every operation rounds   *)
(*    to the nearest point of its grid, as the f32 operation does on its.  *)
(***************************************************************************)
EXTENDS Integers, Sequences, FiniteSets, TLC

VARIABLES oscillator, envelope, osc_out, env_out, op, since, calls,
          mutex, audio, main

vars == <<oscillator, envelope, osc_out, env_out, op, since, calls,
          mutex, audio, main>>

(***************************************************************************)
(* Exact rational arithmetic.                                              *)
(***************************************************************************)
Abs(x) == IF x < 0 THEN -x ELSE x

RECURSIVE GCD(_, _)
GCD(a, b) == IF b = 0 THEN a ELSE GCD(b, a % b)

Rat(n, d) ==
    LET g == GCD(Abs(n), Abs(d))
        s == IF d < 0 THEN -1 ELSE 1
    IN  [n |-> (s * n) \div g, d |-> (s * d) \div g]

Zero == Rat(0, 1)
One == Rat(1, 1)
\* Sums and comparisons over the least common denominator, products reduced
\* crosswise, so that no intermediate value is larger than it has to be.
RatAdd(a, b) ==
    LET g == GCD(a.d, b.d)
    IN  Rat(a.n * (b.d \div g) + b.n * (a.d \div g), (a.d \div g) * b.d)
RatNeg(a) == [n |-> -a.n, d |-> a.d]
RatSub(a, b) == RatAdd(a, RatNeg(b))
RatMul(a, b) ==
    LET g == GCD(Abs(a.n), b.d)
        h == GCD(Abs(b.n), a.d)
    IN  Rat((a.n \div g) * (b.n \div h), (a.d \div h) * (b.d \div g))
\* a / b for b # 0.
RatDiv(a, b) == RatMul(a, Rat(b.d, b.n))
RatGE(a, b) ==
    LET g == GCD(a.d, b.d)
    IN  a.n * (b.d \div g) >= b.n * (a.d \div g)
RatLE(a, b) == RatGE(b, a)
RatLT(a, b) == ~RatGE(a, b)
\* The least integer >= a (a >= 0).
Ceil(a) == (a.n + a.d - 1) \div a.d

(***************************************************************************)
(* Fixed point of the oscillator.                                          *)
(***************************************************************************)
\* Steps per cycle of carrier_phase and modulator_phase.
PhaseUnit == 16384
\* Steps per unit of a sine value.
SinUnit == 1024
\* Steps per Hz of a frequency (523.25 Hz and 659.25 Hz are notes of main).
FreqUnit == 4
\* Steps per unit of an amplitude.
AmpUnit == 10

\* A frequency given in Hz, and one given in hundredths of a Hz.
Hz(h) == h * FreqUnit
Hz100(c) == (c * FreqUnit) \div 100

\* The integer nearest to a / b (b > 0), halves away from zero: the rounding
\* of an f32 operation, on the grid of the quantity it produces.
Round(a, b) ==
    IF a >= 0 THEN (a + b \div 2) \div b ELSE -((b \div 2 - a) \div b)

\* sin over the first quarter cycle in 1/SinTableUnit, at equal steps of the
\* angle from 0 to a quarter cycle.
SinTableUnit == 16384
SinTable ==
    <<
           0,   402,   804,  1205,  1606,  2006,  2404,  2801,
        3196,  3590,  3981,  4370,  4756,  5139,  5520,  5897,
        6270,  6639,  7005,  7366,  7723,  8076,  8423,  8765,
        9102,  9434,  9760, 10080, 10394, 10702, 11003, 11297,
       11585, 11866, 12140, 12406, 12665, 12916, 13160, 13395,
       13623, 13842, 14053, 14256, 14449, 14635, 14811, 14978,
       15137, 15286, 15426, 15557, 15679, 15791, 15893, 15986,
       16069, 16143, 16207, 16261, 16305, 16340, 16364, 16379,
       16384 >>
SinQuarterSteps == Len(SinTable) - 1
\* The steps of the linear interpolation between two entries of the table.
SinSubSteps == 64

\* (2.0 * PI * phase).sin(), phase in 1/PhaseUnit cycles (any sign): the
\* table read at the phase's place in its quarter cycle, mirrored in the
\* second and fourth quarter, negated in the second half, in 1/SinUnit.
Sin(phase) ==
    LET quarter == SinQuarterSteps * SinSubSteps
        x == ((phase % PhaseUnit) * 4 * quarter) \div PhaseUnit
        q == x \div quarter
        y == IF q % 2 = 1 THEN quarter - (x % quarter) ELSE x % quarter
        i == y \div SinSubSteps
        r == y % SinSubSteps
        v == IF r = 0 THEN SinTable[i + 1]
             ELSE SinTable[i + 1]
                    + Round((SinTable[i + 2] - SinTable[i + 1]) * r, SinSubSteps)
        s == Round(v * SinUnit, SinTableUnit)
    IN  IF q >= 2 THEN -s ELSE s

(***************************************************************************)
(* FMParams and FMOscillator.                                              *)
(***************************************************************************)
FMParams(carrier, modulator, mod_index, amp) ==
    [carrier_freq |-> carrier, modulator_freq |-> modulator,
     modulation_index |-> mod_index, amplitude |-> amp]

\* impl Default for FMParams
FMParams_default == FMParams(Hz(440), Hz(220), 2, 3)

FMOscillator_new(sample_rate, params) ==
    [sample_rate |-> sample_rate, carrier_phase |-> 0, modulator_phase |-> 0,
     params |-> params]

\* The wrap taken only when the phase went past 1.
Wrap_PastOne(phase) == IF phase > PhaseUnit THEN phase - PhaseUnit ELSE phase

\* The wrap of one phase: a single subtraction when the phase reached 1.
Wrap(phase) == IF phase >= PhaseUnit THEN phase - PhaseUnit ELSE phase

\* The carrier's frequency deflected by the modulator's current value.
ModulatedFreq(self) ==
    LET modulator == Sin(self.modulator_phase)
    IN  Round(self.params.carrier_freq
                * (SinUnit + self.params.modulation_index * modulator), SinUnit)

\* freq / self.sample_rate: the phase one call adds at a frequency.
PhaseStep(freq, sample_rate) == Round(freq * PhaseUnit, sample_rate * FreqUnit)

\* next_sample with the carrier evaluated after the phase update.
FMOscillator_next_sample_PostIncrement(self) ==
    LET cp == Wrap(self.carrier_phase
                + PhaseStep(ModulatedFreq(self), self.sample_rate))
        mp == Wrap(self.modulator_phase
                + PhaseStep(self.params.modulator_freq, self.sample_rate))
    IN  [self |-> [self EXCEPT !.carrier_phase = cp, !.modulator_phase = mp],
         ret |-> Round(Sin(cp) * self.params.amplitude, AmpUnit)]

\* next_sample: the oscillator after the call (self) and the value it returns.
FMOscillator_next_sample(self) ==
    LET modulated_freq == ModulatedFreq(self)
        carrier == Sin(self.carrier_phase)
        cp == self.carrier_phase + PhaseStep(modulated_freq, self.sample_rate)
        mp == self.modulator_phase
                + PhaseStep(self.params.modulator_freq, self.sample_rate)
    IN  [self |-> [self EXCEPT !.carrier_phase = Wrap(cp),
                               !.modulator_phase = Wrap(mp)],
         ret |-> Round(carrier * self.params.amplitude, AmpUnit)]

FMOscillator_set_params(self, params) == [self EXCEPT !.params = params]

(***************************************************************************)
(* Envelope.                                                               *)
(***************************************************************************)
EnvelopeState == {"Idle", "Attack", "Decay", "Sustain", "Release"}

Envelope_new(sample_rate) ==
    [attack |-> Rat(1, 100), decay |-> Rat(1, 10), sustain |-> Rat(7, 10),
     release |-> Rat(1, 2), sample_rate |-> sample_rate,
     state |-> "Idle", level |-> Zero, time |-> Zero]

\* An envelope whose four configuration fields hold other values.
Envelope_with(sample_rate, a, d, s, r) ==
    [Envelope_new(sample_rate) EXCEPT
        !.attack = a, !.decay = d, !.sustain = s, !.release = r]

Envelope_trigger_KeepsTime(self) == [self EXCEPT !.state = "Attack"]
Envelope_trigger_ClearsLevel(self) ==
    [self EXCEPT !.state = "Attack", !.time = Zero, !.level = Zero]
Envelope_trigger(self) == [self EXCEPT !.state = "Attack", !.time = Zero]

Envelope_release_FromIdleToo(self) ==
    [self EXCEPT !.state = "Release", !.time = Zero]
Envelope_release_ClockInIdleToo(self) ==
    IF self.state # "Idle"
    THEN [self EXCEPT !.state = "Release", !.time = Zero]
    ELSE [self EXCEPT !.time = Zero]
Envelope_release(self) ==
    IF self.state # "Idle"
    THEN [self EXCEPT !.state = "Release", !.time = Zero]
    ELSE self

\* The Decay ramp with the factor (1 - sustain) written as sustain.
Envelope_decay_level_BySustain(self) ==
    RatSub(One, RatMul(self.sustain, RatDiv(self.time, self.decay)))

\* The level of the Decay arm: the ramp from 1 to sustain over decay.
Envelope_decay_level(self) ==
    RatSub(One, RatMul(RatSub(One, self.sustain),
                       RatDiv(self.time, self.decay)))

\* The Release ramp started from the level the envelope had.
Envelope_release_level_FromLevel(self) ==
    RatMul(self.level, RatSub(One, RatDiv(self.time, self.release)))

\* The level of the Release arm: the ramp from sustain to 0 over release.
Envelope_release_level(self) ==
    RatMul(self.sustain, RatSub(One, RatDiv(self.time, self.release)))

\* The Release arm without line 159: the ramp's last value goes out.
Envelope_release_arm_KeepsRamp(self) ==
    LET l == Envelope_release_level(self)
    IN  IF RatGE(self.time, self.release)
        THEN [self EXCEPT !.level = l, !.state = "Idle"]
        ELSE [self EXCEPT !.level = l]

\* The Release arm: at the end of the ramp the stage is Idle and the level 0;
\* the elapsed time is left as it is.
Envelope_release_arm(self) ==
    LET l == Envelope_release_level(self)
    IN  IF RatGE(self.time, self.release)
        THEN [self EXCEPT !.level = Zero, !.state = "Idle"]
        ELSE [self EXCEPT !.level = l]

\* The match of process: the level of the current stage at the elapsed time,
\* and the move to the next stage once the elapsed time reached the duration.
Envelope_match(self) ==
    CASE self.state = "Idle" -> [self EXCEPT !.level = Zero]
      [] self.state = "Attack" ->
            LET l == RatDiv(self.time, self.attack)
            IN  IF RatGE(self.time, self.attack)
                THEN [self EXCEPT !.level = l, !.state = "Decay", !.time = Zero]
                ELSE [self EXCEPT !.level = l]
      [] self.state = "Decay" ->
            LET l == Envelope_decay_level(self)
            IN  IF RatGE(self.time, self.decay)
                THEN [self EXCEPT !.level = l, !.state = "Sustain", !.time = Zero]
                ELSE [self EXCEPT !.level = l]
      [] self.state = "Sustain" -> [self EXCEPT !.level = self.sustain]
      [] self.state = "Release" -> Envelope_release_arm(self)

\* process returning the level it found instead of the one it computed.
Envelope_process_StaleLevel(self) ==
    LET m == Envelope_match(self)
    IN  [self |-> [m EXCEPT !.time = RatAdd(m.time, Rat(1, self.sample_rate))],
         ret |-> self.level]

\* process: the envelope after the call (self) and the level it returns.
Envelope_process(self) ==
    LET dt == Rat(1, self.sample_rate)
        m == Envelope_match(self)
    IN  [self |-> [m EXCEPT !.time = RatAdd(m.time, dt)], ret |-> m.level]

(***************************************************************************)
(* FMSynth: its fields are the variables oscillator and envelope.          *)
(***************************************************************************)
FMSynth_new(sample_rate, params) ==
    [oscillator |-> FMOscillator_new(sample_rate, params),
     envelope |-> Envelope_new(sample_rate)]

\* osc_out * env_out, the value next_sample returns.
FMSynth_product(o, e) == RatMul(Rat(o, SinUnit), e)

\* self is the FMSynth record [oscillator, envelope].
FMSynth_note_on_RestartsPhases(self) ==
    [oscillator |-> [self.oscillator EXCEPT !.carrier_phase = 0,
                                            !.modulator_phase = 0],
     envelope |-> Envelope_trigger(self.envelope)]
FMSynth_note_on(self) ==
    [self EXCEPT !.envelope = Envelope_trigger(self.envelope)]
FMSynth_note_off(self) ==
    [self EXCEPT !.envelope = Envelope_release(self.envelope)]
FMSynth_set_params(self, params) ==
    [self EXCEPT !.oscillator = FMOscillator_set_params(self.oscillator, params)]

(***************************************************************************)
(* State.  oscillator and envelope are the two fields of FMSynth; osc_out  *)
(* and env_out are the values the last next_sample and process returned;   *)
(* op is the last operation; since records the last trigger or release,    *)
(* the stage it found and the process calls made after it; calls counts    *)
(* the oscillator's calls; mutex, audio and main are main's two threads.   *)
(***************************************************************************)
NoSignal == [sig |-> "none", from |-> "Idle", n |-> 0]
\* The audio thread between two callbacks: pc is its position, len the length
\* of the buffer of the current callback, i the samples written to it, data
\* their values, blocks the callbacks finished; start_params are the
\* oscillator's parameters when the callback took the lock and used those in
\* place at each call made for a sample since.
AudioIdle == [pc |-> "wait", len |-> 0, i |-> 0, blocks |-> 0,
              start_params |-> FMParams_default, used |-> <<>>, data |-> <<>>]
\* The control thread before its first note.
MainStart == [pc |-> "lock_on", note |-> 1]

InitRest ==
    /\ osc_out = 0
    /\ env_out = Zero
    /\ op = "new"
    /\ since = NoSignal
    /\ calls = [next_sample |-> 0, set_params |-> 0]
    /\ mutex = "free"
    /\ audio = AudioIdle
    /\ main = MainStart

(***************************************************************************)
(* The oscillator alone: next_sample and set_params in any order.          *)
(***************************************************************************)
MaxOscCalls == 60
MaxSetParams == 1

\* The parameters main builds the synth with, and those of its four notes.
MainParams == FMParams(Hz(440), Hz(880), 5, 3)
notes ==
    << FMParams(Hz(440), Hz(880), 2, 3),
       FMParams(Hz100(52325), Hz100(104650), 3, 3),
       FMParams(Hz100(65925), Hz100(65925), 5, 3),
       FMParams(Hz(440), Hz(220), 8, 3) >>

OscSampleRates == {48000}
\* The parameters an oscillator is built with.
OscParams ==
    { MainParams, FMParams_default }
    \cup { notes[k] : k \in 1..Len(notes) }
    \cup {
      FMParams(Hz(440), Hz(220), 0, 3),
      FMParams(Hz(440), Hz(880), 0, 3),
      FMParams(Hz(12000), Hz(6000), 0, 10),
      FMParams(Hz(440), Hz(220), 1, 3),
      FMParams(Hz(12000), Hz(6000), 1, 10) }

InitOsc ==
    /\ \E sr \in OscSampleRates, p \in OscParams :
          /\ oscillator = FMOscillator_new(sr, p)
          /\ envelope = Envelope_new(sr)
    /\ InitRest

OscNextSample ==
    /\ calls.next_sample < MaxOscCalls
    /\ LET r == FMOscillator_next_sample(oscillator)
       IN  /\ oscillator' = r.self
           /\ osc_out' = r.ret
    /\ calls' = [calls EXCEPT !.next_sample = @ + 1]
    /\ op' = "next_sample"
    /\ UNCHANGED <<envelope, env_out, since, mutex, audio, main>>

OscSetParams ==
    /\ calls.set_params < MaxSetParams
    /\ \E k \in 1..Len(notes) :
          /\ notes[k] # oscillator.params
          /\ oscillator' = FMOscillator_set_params(oscillator, notes[k])
    /\ calls' = [calls EXCEPT !.set_params = @ + 1]
    /\ op' = "set_params"
    /\ UNCHANGED <<envelope, osc_out, env_out, since, mutex, audio, main>>

NextOsc == OscNextSample \/ OscSetParams

SpecOsc == InitOsc /\ [][NextOsc]_vars

(***************************************************************************)
(* The envelope alone: trigger, release and process in any order.          *)
(***************************************************************************)
\* process is called while the elapsed time is below this many sample periods.
MaxEnvTicks == 40

EnvSampleRates == {8, 16, 64}
Envelopes ==
    { Envelope_new(sr) : sr \in EnvSampleRates }
    \cup { Envelope_with(sr, Rat(1, 4), Rat(1, 2), s, Rat(1, 2)) :
            sr \in EnvSampleRates, s \in {Rat(3, 4), One} }
    \cup { Envelope_with(sr, Rat(1, 100), Rat(1, 10), Zero, Rat(1, 2)) :
            sr \in EnvSampleRates }
    \cup { Envelope_with(sr, Rat(1, 4), Rat(1, 2), Rat(3, 4), Rat(3, 10)) :
            sr \in EnvSampleRates }

InitEnv ==
    /\ envelope \in Envelopes
    /\ oscillator = FMOscillator_new(envelope.sample_rate, FMParams_default)
    /\ InitRest

EnvTrigger ==
    /\ envelope' = Envelope_trigger(envelope)
    /\ since' = [sig |-> "trigger", from |-> envelope.state, n |-> 0]
    /\ op' = "trigger"
    /\ UNCHANGED <<oscillator, osc_out, env_out, calls, mutex, audio, main>>

EnvRelease ==
    /\ envelope' = Envelope_release(envelope)
    /\ since' = [sig |-> "release", from |-> envelope.state, n |-> 0]
    /\ op' = "release"
    /\ UNCHANGED <<oscillator, osc_out, env_out, calls, mutex, audio, main>>

EnvProcess ==
    /\ RatLT(envelope.time, Rat(MaxEnvTicks, envelope.sample_rate))
    /\ LET r == Envelope_process(envelope)
       IN  /\ envelope' = r.self
           /\ env_out' = r.ret
    /\ since' = [since EXCEPT !.n = @ + 1]
    /\ op' = "process"
    /\ UNCHANGED <<oscillator, osc_out, calls, mutex, audio, main>>

NextEnv == EnvTrigger \/ EnvRelease \/ EnvProcess

SpecEnv == InitEnv /\ [][NextEnv]_vars

\* The steps of EnvProcess, told by what they record: among the steps of
\* NextEnv these are exactly those of EnvProcess, enabled when it is.
EnvProcessStep ==
    /\ RatLT(envelope.time, Rat(MaxEnvTicks, envelope.sample_rate))
    /\ since' = [since EXCEPT !.n = @ + 1]
    /\ op' = "process"

\* The audio callback keeps asking for samples: process is always taken again.
SpecEnvFair == SpecEnv /\ WF_since(EnvProcessStep)

(***************************************************************************)
(* main: the audio callback and the control thread share the synth under a *)
(* mutex.  The callback locks, fills its buffer sample by sample (each     *)
(* sample is oscillator.next_sample, then envelope.process) and unlocks on *)
(* return.  The control thread, per note: lock, set_params, note_on,       *)
(* unlock, sleep, lock, note_off, unlock, sleep.                           *)
(***************************************************************************)
MaxBlocks == 3
MaxBlockLen == 2

MainSampleRates == {48000}

\* synth.lock(): the mutex can be taken when no thread holds it.
\* The FMSynth behind the Arc<Mutex<..>>.
Synth == [oscillator |-> oscillator, envelope |-> envelope]

\* Who holds the mutex after set_params: the guard taken at line 260 lives
\* to the end of the block at line 268, so main still does.
MutexGuard_after_set_params_Dropped == "free"
MutexGuard_after_set_params == "main"

Mutex_lock_Unguarded == TRUE
Mutex_lock == mutex = "free"

Init ==
    /\ \E sr \in MainSampleRates :
          /\ oscillator = FMSynth_new(sr, MainParams).oscillator
          /\ envelope = FMSynth_new(sr, MainParams).envelope
    /\ InitRest

AudioLock ==
    /\ audio.pc = "wait" /\ main.pc # "done" /\ audio.blocks < MaxBlocks
    /\ Mutex_lock
    /\ mutex' = "audio"
    /\ \E len \in 1..MaxBlockLen :
          audio' = [audio EXCEPT !.pc = "osc", !.len = len, !.i = 0,
                                 !.start_params = oscillator.params,
                                 !.used = <<>>, !.data = <<>>]
    /\ UNCHANGED <<oscillator, envelope, osc_out, env_out, op, since, calls,
                   main>>

AudioOsc ==
    /\ audio.pc = "osc"
    /\ LET r == FMOscillator_next_sample(oscillator)
       IN  /\ oscillator' = r.self
           /\ osc_out' = r.ret
    /\ audio' = [audio EXCEPT !.pc = "env",
                              !.used = Append(@, oscillator.params)]
    /\ calls' = [calls EXCEPT !.next_sample = @ + 1]
    /\ op' = "next_sample"
    /\ UNCHANGED <<envelope, env_out, since, mutex, main>>

AudioEnv ==
    /\ audio.pc = "env"
    /\ LET r == Envelope_process(envelope)
       IN  /\ envelope' = r.self
           /\ env_out' = r.ret
           /\ audio' = [audio EXCEPT
                 !.pc = IF audio.i + 1 < audio.len THEN "osc" ELSE "unlock",
                 !.i = @ + 1,
                 !.used = Append(@, oscillator.params),
                 !.data = Append(@, FMSynth_product(osc_out, r.ret))]
    /\ since' = [since EXCEPT !.n = @ + 1]
    /\ op' = "process"
    /\ UNCHANGED <<oscillator, osc_out, calls, mutex, main>>

AudioUnlock ==
    /\ audio.pc = "unlock"
    /\ mutex' = "free"
    /\ audio' = [audio EXCEPT !.pc = "wait", !.blocks = @ + 1]
    /\ UNCHANGED <<oscillator, envelope, osc_out, env_out, op, since, calls,
                   main>>

MainLock ==
    /\ main.pc \in {"lock_on", "lock_off"}
    /\ Mutex_lock
    /\ mutex' = "main"
    /\ main' = [main EXCEPT
          !.pc = IF main.pc = "lock_on" THEN "set_params" ELSE "note_off"]
    /\ UNCHANGED <<oscillator, envelope, osc_out, env_out, op, since, calls,
                   audio>>

MainSetParams ==
    /\ main.pc = "set_params"
    /\ LET synth == FMSynth_set_params(Synth, notes[main.note])
       IN  /\ oscillator' = synth.oscillator
           /\ envelope' = synth.envelope
    /\ main' = [main EXCEPT !.pc = "note_on"]
    /\ calls' = [calls EXCEPT !.set_params = @ + 1]
    /\ op' = "set_params"
    /\ mutex' = MutexGuard_after_set_params
    /\ UNCHANGED <<osc_out, env_out, since, audio>>

MainNoteOn ==
    /\ main.pc = "note_on"
    /\ LET synth == FMSynth_note_on(Synth)
       IN  /\ oscillator' = synth.oscillator
           /\ envelope' = synth.envelope
    /\ since' = [sig |-> "trigger", from |-> envelope.state, n |-> 0]
    /\ main' = [main EXCEPT !.pc = "unlock_on"]
    /\ op' = "trigger"
    /\ UNCHANGED <<osc_out, env_out, calls, mutex, audio>>

MainNoteOff ==
    /\ main.pc = "note_off"
    /\ LET synth == FMSynth_note_off(Synth)
       IN  /\ oscillator' = synth.oscillator
           /\ envelope' = synth.envelope
    /\ since' = [sig |-> "release", from |-> envelope.state, n |-> 0]
    /\ main' = [main EXCEPT !.pc = "unlock_off"]
    /\ op' = "release"
    /\ UNCHANGED <<osc_out, env_out, calls, mutex, audio>>

MainUnlock ==
    /\ main.pc \in {"unlock_on", "unlock_off"}
    /\ mutex' = "free"
    /\ main' = [main EXCEPT
          !.pc = IF main.pc = "unlock_on" THEN "lock_off" ELSE "sleep"]
    /\ UNCHANGED <<oscillator, envelope, osc_out, env_out, op, since, calls,
                   audio>>

\* The sleep after a note_off is over: the loop takes the next note, or main
\* returns after the last one and the stream is dropped with it.  Until then
\* the callback goes on rendering the released note.
MainSleepEnds ==
    /\ main.pc = "sleep"
    /\ main' = IF main.note < Len(notes)
               THEN [main EXCEPT !.pc = "lock_on", !.note = @ + 1]
               ELSE [main EXCEPT !.pc = "done"]
    /\ UNCHANGED <<oscillator, envelope, osc_out, env_out, op, since, calls,
                   mutex, audio>>

Next ==
    \/ AudioLock \/ AudioOsc \/ AudioEnv \/ AudioUnlock
    \/ MainLock \/ MainSetParams \/ MainNoteOn \/ MainNoteOff \/ MainUnlock
    \/ MainSleepEnds

Spec == Init /\ [][Next]_vars

(***************************************************************************)
(* Properties of the oscillator (SpecOsc).                                 *)
(***************************************************************************)
ParamsInRange(p) ==
    p.carrier_freq > 0 /\ p.modulator_freq >= 0 /\ p.modulation_index >= 0

PhaseInUnitInterval(phase) == 0 <= phase /\ phase < PhaseUnit

\* C1: for carrier_freq > 0, modulator_freq >= 0 and modulation_index >= 0,
\* after every call of next_sample, over any number of consecutive calls with
\* the parameters the oscillator was built with, both phases lie in [0,1).
C1_PhasesInUnitInterval ==
    (op = "next_sample" /\ calls.set_params = 0
        /\ ParamsInRange(oscillator.params))
        => /\ PhaseInUnitInterval(oscillator.carrier_phase)
           /\ PhaseInUnitInterval(oscillator.modulator_phase)

\* The fractional part of a phase, on the phase grid.
Frac(phase) == phase % PhaseUnit

\* C13: with modulation_index = 0 and 0 <= carrier_freq < sample_rate, call
\* number n (from 0) of a freshly built oscillator evaluates the carrier at
\* the phase frac(n * carrier_freq / sample_rate), the phase before this
\* call's increment, and returns amplitude * sin of it; the value does not
\* depend on the modulator's frequency.
C13_PureSineAtIndexZero ==
    (op = "next_sample" /\ calls.set_params = 0
        /\ oscillator.params.modulation_index = 0
        /\ 0 <= oscillator.params.carrier_freq
        /\ oscillator.params.carrier_freq < oscillator.sample_rate * FreqUnit)
        => LET n == calls.next_sample - 1
               step == PhaseStep(oscillator.params.carrier_freq,
                                 oscillator.sample_rate)
           IN  /\ osc_out = Round(Sin(Frac(n * step))
                                    * oscillator.params.amplitude, AmpUnit)
               /\ oscillator.carrier_phase = Frac((n + 1) * step)

\* Call 5 at a quarter of the sample rate: the carrier has gone round once
\* and the value is that of the phase 0 again, not of the phase after it.
C13_Witness ==
    /\ op = "next_sample" /\ calls.set_params = 0 /\ calls.next_sample = 5
    /\ oscillator.params.modulation_index = 0
    /\ oscillator.params.carrier_freq = Hz(12000)
    /\ oscillator.sample_rate = 48000
    /\ osc_out = 0 /\ oscillator.carrier_phase # 0

\* C19: for parameters of the data model (carrier_freq > 0, modulator_freq
\* >= 0, modulation_index >= 0) with modulation_index <= 1,
\* carrier_freq * (1 + modulation_index) < sample_rate and modulator_freq <
\* sample_rate, both phases lie in [0,1) after every call of next_sample.
C19_PhasesInUnitIntervalAtLowIndex ==
    (op = "next_sample" /\ calls.set_params = 0
        /\ ParamsInRange(oscillator.params)
        /\ oscillator.params.modulation_index <= 1
        /\ oscillator.params.carrier_freq
              * (1 + oscillator.params.modulation_index)
                < oscillator.sample_rate * FreqUnit
        /\ oscillator.params.modulator_freq < oscillator.sample_rate * FreqUnit)
        => /\ PhaseInUnitInterval(oscillator.carrier_phase)
           /\ PhaseInUnitInterval(oscillator.modulator_phase)

\* Index 1 at 12000 Hz, call 8: the modulator has come round to exactly 1,
\* and so has the carrier, slowed and sped up on the way over two cycles;
\* both were wrapped to 0 by the single subtraction.
C19_Witness ==
    /\ op = "next_sample" /\ calls.set_params = 0 /\ calls.next_sample = 8
    /\ oscillator.params = FMParams(Hz(12000), Hz(6000), 1, 10)
    /\ oscillator.modulator_phase = 0
    /\ oscillator.carrier_phase = 0

(***************************************************************************)
(* Properties of the envelope (SpecEnv).                                   *)
(***************************************************************************)
\* One sample period, and a duration counted in sample periods.
Dt(env) == Rat(1, env.sample_rate)
Samples(env, seconds) == RatMul(seconds, Rat(env.sample_rate, 1))
Whole(a) == a.d = 1

ConfigInRange(env) ==
    /\ RatLT(Zero, env.attack) /\ RatLT(Zero, env.decay)
    /\ RatLT(Zero, env.release)
    /\ RatLE(Zero, env.sustain) /\ RatLE(env.sustain, One)

\* The duration of a timed stage.
Duration(env) ==
    CASE env.state = "Attack" -> env.attack
      [] env.state = "Decay" -> env.decay
      [] env.state = "Release" -> env.release
      [] OTHER -> Zero

\* C2: a change of stage is any -> Attack by trigger; Attack, Decay or
\* Sustain -> Release by release; Attack -> Decay, Decay -> Sustain or
\* Release -> Idle by process, with the elapsed time at or past the stage's
\* duration.  process never leaves Idle or Sustain and never skips a stage.
C2_StageMoves ==
    [][envelope'.state # envelope.state =>
        \/ op' = "trigger" /\ envelope'.state = "Attack"
        \/ /\ op' = "release"
           /\ envelope.state \in {"Attack", "Decay", "Sustain"}
           /\ envelope'.state = "Release"
        \/ /\ op' = "process"
           /\ <<envelope.state, envelope'.state>> \in
                {<<"Attack", "Decay">>, <<"Decay", "Sustain">>,
                 <<"Release", "Idle">>}
           /\ RatGE(envelope.time, Duration(envelope))]_vars

\* A release in Sustain followed by process calls that reached Idle.
C2_Witness ==
    /\ op = "process" /\ since.sig = "release" /\ since.from = "Sustain"
    /\ envelope.state = "Idle"

\* C3: every operation that changes the stage resets the elapsed time: it is 0
\* after a trigger or release, one sample period after a process that moved
\* the stage on.
C3_StageChangeResetsTime ==
    [][envelope'.state # envelope.state =>
        envelope'.time = (IF op' = "process" THEN Dt(envelope) ELSE Zero)]_vars

\* C4 as stated: every value process returns lies in [0,1].
C4_LevelInUnitInterval ==
    (op = "process" /\ ConfigInRange(envelope))
        => RatLE(Zero, env_out) /\ RatLE(env_out, One)

\* C4, amended: every value process returns is below 1 + 1/(attack *
\* sample_rate) and is either >= 0 or above sustain - (1 - sustain)/(decay *
\* sample_rate); a value outside [0,1] is returned only by the call that
\* moves Attack or Decay on to the next stage.
C4_LevelWithinOneStep ==
    (op = "process" /\ ConfigInRange(envelope))
        => /\ RatLT(env_out,
                    RatAdd(One, RatDiv(One, Samples(envelope, envelope.attack))))
           /\ \/ RatLE(Zero, env_out)
              \/ RatLT(RatSub(envelope.sustain,
                              RatDiv(RatSub(One, envelope.sustain),
                                     Samples(envelope, envelope.decay))),
                       env_out)
           /\ (RatLT(env_out, Zero) \/ RatLT(One, env_out))
                => /\ envelope.state \in {"Decay", "Sustain"}
                   /\ envelope.time = Dt(envelope)

\* The call that ends Attack returned a level above 1.
C4_Witness ==
    /\ op = "process" /\ ConfigInRange(envelope)
    /\ RatLT(One, env_out) /\ envelope.state = "Decay"

\* C5: after a trigger in Sustain the very next process returns
\* 1/(attack * sample_rate).
C5_RetriggerFirstLevel ==
    (op = "process" /\ since.sig = "trigger" /\ since.from = "Sustain"
        /\ since.n = 1)
        => env_out = RatDiv(One, Samples(envelope, envelope.attack))

\* C6: from Idle, after trigger and exactly ceil(attack * sample_rate) process
\* calls the stage is Decay.
C6_DecayAfterAttackSamples ==
    (op = "process" /\ since.sig = "trigger" /\ since.from = "Idle"
        /\ since.n = Ceil(Samples(envelope, envelope.attack)))
        => envelope.state = "Decay"

\* C7: from Idle, after trigger and exactly attack * sample_rate + decay *
\* sample_rate process calls the stage is Sustain and the level is sustain.
C7_SustainAfterAttackAndDecaySamples ==
    (op = "process" /\ since.sig = "trigger" /\ since.from = "Idle"
        /\ Whole(Samples(envelope, envelope.attack))
        /\ Whole(Samples(envelope, envelope.decay))
        /\ since.n = Samples(envelope, envelope.attack).n
                        + Samples(envelope, envelope.decay).n)
        => envelope.state = "Sustain" /\ envelope.level = envelope.sustain

\* C8: from Sustain, after release and exactly release * sample_rate process
\* calls the stage is Idle and the level is 0.
C8_IdleAfterReleaseSamples ==
    (op = "process" /\ since.sig = "release" /\ since.from = "Sustain"
        /\ Whole(Samples(envelope, envelope.release))
        /\ since.n = Samples(envelope, envelope.release).n)
        => envelope.state = "Idle" /\ envelope.level = Zero

\* C10: trigger, in any stage, leaves stage = Attack and elapsed time = 0, and
\* leaves the level and the four configuration fields as they were.
C10_TriggerEffect ==
    [][op' = "trigger" =>
        envelope' = [envelope EXCEPT !.state = "Attack", !.time = Zero]]_vars

\* A trigger in Release, part-way down the ramp.
C10_Witness ==
    /\ op = "trigger" /\ since.from = "Release"
    /\ envelope.state = "Attack" /\ envelope.time = Zero
    /\ RatLT(Zero, envelope.level)

\* C11: release while the stage is Idle leaves the whole envelope as it was
\* (stage Idle, level and elapsed time kept), and the process calls that
\* follow it return 0 and stay in Idle.
C11_ReleaseInIdleIsNoOp ==
    /\ [][(op' = "release" /\ envelope.state = "Idle")
            => envelope' = envelope]_vars
    /\ []((op = "process" /\ since.sig = "release" /\ since.from = "Idle")
            => (env_out = Zero /\ envelope.state = "Idle"))

\* A release in an Idle envelope whose clock had run, then two process calls.
C11_Witness ==
    /\ op = "process" /\ since.sig = "release" /\ since.from = "Idle"
    /\ since.n = 2 /\ envelope.state = "Idle"
    /\ RatLT(Rat(2, envelope.sample_rate), envelope.time)

\* C14: after a release that found a stage other than Idle, process calls
\* with no further trigger or release lead to Idle with output 0; the call
\* that reaches Idle and every call made in Idle return 0, and from Idle
\* every step but a trigger leaves the stage Idle.
C14_ReleaseLeadsToIdle ==
    /\ (since.sig = "release" /\ since.from # "Idle" /\ since.n >= 1
            /\ envelope.state = "Release")
          ~> ((envelope.state = "Idle" /\ env_out = Zero) \/ since.n = 0)
    /\ [][/\ (op' = "process" /\ envelope'.state = "Idle") => env_out' = Zero
          /\ (envelope.state = "Idle" /\ op' # "trigger")
                => envelope'.state = "Idle"]_vars

\* A note released in Sustain has run down to Idle and stayed there.
C14_Witness ==
    /\ op = "process" /\ since.sig = "release" /\ since.from = "Sustain"
    /\ envelope.state = "Idle" /\ env_out = Zero
    /\ since.n > Ceil(Samples(envelope, envelope.release)) + 2

\* C15: after a trigger, process calls with no further trigger or release
\* lead to Sustain; in Sustain every process returns exactly sustain and only
\* a trigger or a release changes the stage.
C15_TriggerLeadsToSustain ==
    /\ (since.sig = "trigger" /\ since.n >= 1
            /\ envelope.state \in {"Attack", "Decay"})
          ~> (envelope.state = "Sustain" \/ since.n = 0)
    /\ [][envelope.state = "Sustain"
            => /\ op' = "process"
                    => (env_out' = envelope.sustain
                            /\ envelope'.state = "Sustain")
               /\ op' \notin {"trigger", "release"}
                    => envelope'.state = "Sustain"]_vars

\* A note retriggered in Release has reached Sustain and held it for calls.
C15_Witness ==
    /\ op = "process" /\ since.sig = "trigger" /\ since.from = "Release"
    /\ envelope.state = "Sustain" /\ env_out = envelope.sustain
    /\ RatGE(envelope.time, Rat(3, envelope.sample_rate))

\* What the Decay ramp loses in one sample period.
DecayStep(env) == RatDiv(RatSub(One, env.sustain), Samples(env, env.decay))

\* In Decay and in Sustain the last step was a process call, so env_out is the
\* output before the one a process step adds; the first call of a stage finds
\* the elapsed time at one sample period.
FirstCallOfStage(env) == env.time = Dt(env)

\* C16 (as claimed): through Decay without trigger or release, the outputs
\* from the first Decay sample up to and including the first Sustain sample
\* are non-increasing and all in [sustain, 1], and the last Decay output is
\* sustain.
C16_DecayEndsOnSustain ==
    [][(op' = "process" /\ ConfigInRange(envelope))
        => /\ envelope.state = "Decay"
                => /\ ~FirstCallOfStage(envelope) => RatLE(env_out', env_out)
                   /\ RatLE(envelope.sustain, env_out') /\ RatLE(env_out', One)
                   /\ envelope'.state = "Sustain"
                        => env_out' = envelope.sustain
           /\ (envelope.state = "Sustain" /\ FirstCallOfStage(envelope))
                => /\ RatLE(env_out', env_out)
                   /\ RatLE(envelope.sustain, env_out')]_vars

\* C16 (amended): through Decay without trigger or release, the outputs from
\* the first to the last Decay sample are non-increasing and at most 1; all
\* but the last are at least sustain; the last is at most sustain and less
\* than one sample's ramp step below it, equal to sustain when decay *
\* sample_rate is a whole number; the first Sustain sample is sustain.
C16_DecayEndsWithinOneStep ==
    [][(op' = "process" /\ ConfigInRange(envelope))
        => /\ envelope.state = "Decay"
                => /\ ~FirstCallOfStage(envelope) => RatLE(env_out', env_out)
                   /\ RatLE(env_out', One)
                   /\ envelope'.state = "Decay"
                        => RatLE(envelope.sustain, env_out')
                   /\ envelope'.state = "Sustain"
                        => /\ RatLE(env_out', envelope.sustain)
                           /\ RatLE(RatSub(envelope.sustain,
                                           DecayStep(envelope)), env_out')
                           /\ (envelope.sustain # One)
                                => env_out' # RatSub(envelope.sustain,
                                                     DecayStep(envelope))
                           /\ Whole(Samples(envelope, envelope.decay))
                                => env_out' = envelope.sustain
           /\ (envelope.state = "Sustain" /\ FirstCallOfStage(envelope))
                => env_out' = envelope.sustain]_vars

\* The first Sustain call is due after a last Decay output below sustain.
C16_Witness ==
    /\ op = "process" /\ since.sig = "trigger"
    /\ envelope.state = "Sustain" /\ FirstCallOfStage(envelope)
    /\ RatLT(env_out, envelope.sustain)
    /\ RatLT(RatSub(envelope.sustain, DecayStep(envelope)), env_out)

\* C17: after a release that found a stage other than Idle, the next process
\* call returns sustain whatever the level was (a jump up when the release
\* came early in Attack), and the stage is Release for a full release time
\* from this release, also when it found the stage Release already.
C17_ReleaseStartsAtSustain ==
    (since.sig = "release" /\ since.from # "Idle" /\ ConfigInRange(envelope))
        => /\ (op = "process" /\ since.n = 1)
                => (env_out = envelope.sustain /\ envelope.level = env_out)
           /\ since.n <= Ceil(Samples(envelope, envelope.release))
                => envelope.state = "Release"

\* A release given in Release, and a whole release time of calls after it.
C17_Witness ==
    /\ op = "process" /\ since.sig = "release" /\ since.from = "Release"
    /\ since.n = Ceil(Samples(envelope, envelope.release))
    /\ envelope.state = "Release" /\ RatLT(Zero, envelope.sustain)

(***************************************************************************)
(* Properties of main (Spec).                                              *)
(***************************************************************************)
\* C9: every call made for a sample of one callback finds the FMParams that
\* were in place when that callback took the lock: no set_params takes effect
\* between two samples of a block, nor between the two calls of one sample.
C9_OneParamsPerBlock ==
    \A k \in 1..Len(audio.used) : audio.used[k] = audio.start_params

\* A callback that finished a block of two samples after the control thread
\* had set a note's parameters, with the control thread waiting for the lock.
C9_Witness ==
    /\ audio.pc = "unlock" /\ audio.i = 2 /\ Len(audio.used) = 4
    /\ calls.set_params > 0 /\ main.pc = "lock_off"
    /\ audio.start_params = notes[1]

\* C12: FMSynth::set_params changes only the oscillator's params (both phases
\* and the whole envelope, stage, time, level and ADSR configuration, are as
\* before); note_on and note_off change only the envelope's stage and time
\* (params, both phases and the ADSR configuration are as before, so the
\* phases are not reset on note-on).
C12_SynthCallsFrame ==
    [][/\ (main.pc = "set_params" /\ main'.pc = "note_on")
            => /\ envelope' = envelope
               /\ oscillator' = [oscillator EXCEPT !.params = oscillator'.params]
       /\ (main.pc \in {"note_on", "note_off"} /\ main'.pc # main.pc)
            => /\ oscillator' = oscillator
               /\ envelope' = [envelope EXCEPT !.state = envelope'.state,
                                               !.time = envelope'.time]]_vars

\* The second note's note_on found running phases and left them running.
C12_Witness ==
    /\ op = "trigger" /\ main.note = 2 /\ main.pc = "unlock_on"
    /\ oscillator.carrier_phase # 0 /\ oscillator.modulator_phase # 0
    /\ oscillator.params = notes[2]
    /\ since.from = "Release"

\* The number of notes whose note_on has been called, by main's position.
NotesStarted ==
    IF main.pc \in {"lock_on", "set_params", "note_on"}
    THEN main.note - 1 ELSE main.note

\* C18: set_params and note_on of a note are one critical section: whenever
\* the audio callback is rendering a sample, the notes whose parameters were
\* set are the notes whose note_on was called, and the oscillator holds the
\* parameters of the last note started (main's own before the first), so no
\* sample has a note's parameters with the envelope not yet triggered for it,
\* and no sample of a new attack has the note's before.
C18_ParamsAndNoteOnTogether ==
    audio.pc \in {"osc", "env"}
        => /\ calls.set_params = NotesStarted
           /\ oscillator.params =
                IF NotesStarted = 0 THEN MainParams ELSE notes[NotesStarted]

\* The first sample of the second note's attack, half rendered.
C18_Witness ==
    /\ audio.pc = "env" /\ NotesStarted = 2
    /\ since.sig = "trigger" /\ since.n = 0 /\ envelope.state = "Attack"
    /\ oscillator.params = notes[2] /\ audio.blocks >= 1

====
